---- MODULE Spec2Model ----
(***************************************************************************)
(* cargo-hack: exec_on_workspace / exec_on_package / no_dev_deps of        *)
(* src/main.rs as a state machine.  One run of exec_on_workspace is one    *)
(* behaviour: the arguments, the workspace metadata and the manifests on   *)
(* disk are chosen in Init, the steps of the run are the actions.          *)
(*                                                                         *)
(* A package is identified by its name; its manifest path is identified    *)
(* with the name as well (cargo metadata gives one manifest per package).  *)
(* A manifest's content is the sequence of its tables.                     *)
(***************************************************************************)
EXTENDS Naturals, Sequences, FiniteSets

\* ------------------------------------------------------------------ bounds

\* Largest number of packages in the workspace metadata.
MaxPkgs == 3

\* Package names, in workspace declaration order; metadata.packages is a
\* prefix of this list.
AllNames == <<"a", "b", "c", "d", "e">>

\* Values of args.package tried: empty, one name, names out of metadata
\* order, a repeated name, names that match no package ("y", "z").
PackageLists ==
    { <<>>, <<"a">>, <<"b", "a">>, <<"b", "b">>, <<"c", "a">>,
      <<"z">>, <<"a", "z">>, <<"z", "y">> }

\* Values of args.exclude tried.
ExcludeLists == { <<>>, <<"b">>, <<"z">>, <<"b", "z">> }

\* The current manifest: virtual, or of a package of that name.
CurrentManifests ==
    { [virtual |-> TRUE, name |-> ""],
      [virtual |-> FALSE, name |-> "a"],
      [virtual |-> FALSE, name |-> "b"],
      [virtual |-> FALSE, name |-> "z"] }

\* ------------------------------------------------------------- helpers

Range(s) == { s[i] : i \in 1..Len(s) }

\* Vec::contains / Iterator::any(|x| x == n)
Contains(s, n) == \E i \in 1..Len(s) : s[i] = n

\* ------------------------------------------------------------ manifests

DevTables == { "dev-dependencies", "target.dev-dependencies" }

\* The content of each package's manifest before the run.
Raw(n) ==
    CASE n = "a" -> <<"package", "dependencies", "dev-dependencies">>
      [] n = "b" -> <<"package", "dependencies">>
      [] n = "c" -> <<"package", "dev-dependencies", "target.dev-dependencies">>
      [] n = "d" -> <<"package", "dev-dependencies", "features">>
      [] OTHER   -> <<"package">>

NotDevTable(t) == t \notin DevTables

\* Manifest::remove_dev_deps: the content without its dev-dependency tables.
RemoveDevDeps(raw) == SelectSeq(raw, NotDevTable)

\* std::fs::write(path, content): creates/truncates the file, then writes.
\* A failed write leaves the file as it was (it could not be opened) or
\* truncated (it was opened, the write failed).
WriteOutcomes == { "ok", "err_untouched", "err_truncated" }

FsWrite(d, path, content, outcome) ==
    CASE outcome = "ok"            -> [d EXCEPT ![path] = content]
      [] outcome = "err_truncated" -> [d EXCEPT ![path] = <<>>]
      [] OTHER                     -> d

\* ---------------------------------------------------------------- results

NoResult == [kind |-> "none", arg |-> ""]
Ok == [kind |-> "Ok", arg |-> ""]
Err(kind, arg) == [kind |-> kind, arg |-> arg]

VARIABLES
    args,              \* Args: workspace, package, exclude, no_dev_deps,
                       \*       remove_dev_deps, subcommand (is_some), color
    metadata,          \* Metadata.packages, names in declaration order
    private,           \* the packages whose Kind is SkipAsPrivate
    current_manifest,  \* the current directory's Manifest
    disk,              \* manifest path -> content on disk
    pc,                \* position of the run
    restore,           \* the Restore of exec_on_workspace
    packages,          \* the selected packages (Vec<Package>)
    idx,               \* position of try_for_each in packages
    handles,           \* the live Restore handles
    pending,           \* the Result no_dev_deps is returning
    result,            \* the Result of exec_on_workspace
    invoked,           \* packages whose subprocess was invoked, in order
    writes,            \* every fs::write of a manifest, in order: its path,
                       \* "update" or "restore", who wrote, whether it succeeded
    doneCalls,         \* packages whose handle had done() called explicitly
    visited,           \* packages passed to exec_on_package, in order
    warned,            \* exclude specs warned about
    line,              \* the ProcessBuilder of exec_on_workspace (the template)
    pkg_line,          \* the ProcessBuilder of exec_on_package (the clone)
    cmdlines,          \* the command line of every invocation, in order
    progress           \* Progress: count and total

vars == << args, metadata, private, current_manifest, disk, pc, restore,
           packages, idx, handles, pending, result, invoked, writes,
           doneCalls, visited, warned, line, pkg_line, cmdlines, progress >>

\* The command line state and the progress counters.
cmd == << line, pkg_line, cmdlines, progress >>

inputs == << args, metadata, private, current_manifest >>

\* ------------------------------------------------------------------- Init

ArgsSet ==
    [ workspace : BOOLEAN, package : PackageLists, exclude : ExcludeLists,
      no_dev_deps : BOOLEAN, remove_dev_deps : BOOLEAN, subcommand : BOOLEAN,
      color : { "none", "always" } ]

Init ==
    /\ args \in ArgsSet
    /\ \E n \in 0..MaxPkgs : metadata = SubSeq(AllNames, 1, n)
    /\ private \in SUBSET Range(metadata)
    /\ current_manifest \in CurrentManifests
    /\ disk = [ n \in Range(metadata) |-> Raw(n) ]
    /\ pc = "start"
    /\ restore = [needs_restore |-> FALSE]
    /\ packages = <<>>
    /\ idx = 1
    /\ handles = {}
    /\ pending = NoResult
    /\ result = NoResult
    /\ invoked = <<>>
    /\ writes = <<>>
    /\ doneCalls = <<>>
    /\ visited = <<>>
    /\ warned = {}
    /\ line = <<>>
    /\ pkg_line = <<>>
    /\ cmdlines = <<>>
    /\ progress = [count |-> 0, total |-> 0]

\* ---------------------------------------------------------------- Restore

\* Restore::new(args): the manifest is restored unless the suppression is
\* to persist (remove_dev_deps).
RestoreNew(a) == [needs_restore |-> a.no_dev_deps /\ ~a.remove_dev_deps]

\* Restore::set_manifest(&manifest): a handle over the original content.
SetManifest(p) == [path |-> p, original |-> Raw(p), restored |-> FALSE]

\* Whether finalizing or releasing handle h writes the original back.
HandleWrites(r, h) == r.needs_restore /\ ~h.restored

\* ------------------------------------------------------------- selection

\* The check of args.package left out.
Unmatched_None(a, md) == {}

\* main.rs:100-103, the first spec of args.package matching no package.
Unmatched(a, md) ==
    { i \in 1..Len(a.package) : ~Contains(md, a.package[i]) }

FirstUnmatched(a, md) ==
    a.package[CHOOSE i \in Unmatched(a, md) : \A j \in Unmatched(a, md) : i <= j]

\* --workspace with the exclude list not applied.
SelectPackages_IgnoreExclude(a, cm, md) ==
    IF a.workspace THEN
        md
    ELSE IF a.package # <<>> THEN
        LET keep(n) == Contains(a.package, n) IN SelectSeq(md, keep)
    ELSE IF cm.virtual THEN
        md
    ELSE
        LET hits == { i \in 1..Len(md) : md[i] = cm.name } IN
        IF hits = {} THEN <<>>
        ELSE << md[CHOOSE i \in hits : \A j \in hits : i <= j] >>

\* The packages of args.package taken in the order of that list, one per
\* spec, instead of filtering metadata.packages.
SelectPackages_ListOrder(a, cm, md) ==
    IF a.workspace THEN
        LET keep(n) == ~Contains(a.exclude, n) IN SelectSeq(md, keep)
    ELSE IF a.package # <<>> THEN
        LET keep(n) == Contains(md, n) IN SelectSeq(a.package, keep)
    ELSE IF cm.virtual THEN
        md
    ELSE
        LET hits == { i \in 1..Len(md) : md[i] = cm.name } IN
        IF hits = {} THEN <<>>
        ELSE << md[CHOOSE i \in hits : \A j \in hits : i <= j] >>

\* The test of is_virtual() inverted.
SelectPackages_VirtualInverted(a, cm, md) ==
    IF a.workspace THEN
        LET keep(n) == ~Contains(a.exclude, n) IN SelectSeq(md, keep)
    ELSE IF a.package # <<>> THEN
        LET keep(n) == Contains(a.package, n) IN SelectSeq(md, keep)
    ELSE IF ~cm.virtual THEN
        md
    ELSE
        LET hits == { i \in 1..Len(md) : md[i] = cm.name } IN
        IF hits = {} THEN <<>>
        ELSE << md[CHOOSE i \in hits : \A j \in hits : i <= j] >>

\* The comparison with the current package's name inverted.
SelectPackages_NotCurrent(a, cm, md) ==
    IF a.workspace THEN
        LET keep(n) == ~Contains(a.exclude, n) IN SelectSeq(md, keep)
    ELSE IF a.package # <<>> THEN
        LET keep(n) == Contains(a.package, n) IN SelectSeq(md, keep)
    ELSE IF cm.virtual THEN
        md
    ELSE
        LET hits == { i \in 1..Len(md) : md[i] # cm.name } IN
        IF hits = {} THEN <<>>
        ELSE << md[CHOOSE i \in hits : \A j \in hits : i <= j] >>

\* main.rs:84-117, the packages handed to Package::from_iter.
SelectPackages(a, cm, md) ==
    IF a.workspace THEN
        LET keep(n) == ~Contains(a.exclude, n) IN SelectSeq(md, keep)
    ELSE IF a.package # <<>> THEN
        LET keep(n) == Contains(a.package, n) IN SelectSeq(md, keep)
    ELSE IF cm.virtual THEN
        md
    ELSE
        LET hits == { i \in 1..Len(md) : md[i] = cm.name } IN
        IF hits = {} THEN <<>>
        ELSE << md[CHOOSE i \in hits : \A j \in hits : i <= j] >>

\* main.rs:85-94, the exclude specs warned about.
ExcludeWarnings(a, md) ==
    IF a.workspace THEN { s \in Range(a.exclude) : ~Contains(md, s) } ELSE {}

\* The assertion compiled out.
AssertHolds_Off(a) == TRUE

\* main.rs:70-73, the assertion of exec_on_workspace.
AssertHolds(a) == a.subcommand \/ a.remove_dev_deps

\* ProcessBuilder::from_args(cargo_binary(), args): the binary and the
\* arguments every invocation starts with.
FromArgs(a) == <<"cargo">> \o (IF a.subcommand THEN <<"subcommand">> ELSE <<>>)

\* main.rs:76-81, the template: from_args, then --color when configured.
BaseLine(a) ==
    FromArgs(a) \o (IF a.color # "none" THEN <<"--color", a.color>> ELSE <<>>)

\* ProcessBuilder::append_features_from_args(args, package): the feature
\* arguments of the package, from its own declared features.
FeatureArgs(p) ==
    CASE p = "a" -> <<"--features", "feature-of-a">>
      [] p = "b" -> <<>>
      [] p = "c" -> <<"--features", "feature-of-c">>
      [] p = "d" -> <<"--features", "feature-of-d">>
      [] OTHER   -> <<"--no-default-features">>

\* main.rs:135-139, the command line of one package from the template.
PackageLine(l, p) == (l \o FeatureArgs(p)) \o <<"--manifest-path", p>>

\* Package::from_iter: Progress is initialized to the number of packages.
ProgressTotal(pr, sel) == [pr EXCEPT !.total = Len(sel)]

\* package::exec: the invocation advances the current index.
ProgressCount(pr) == [pr EXCEPT !.count = @ + 1]

\* The test of the suppression flags left out: every run rewrites manifests.
Suppress_Always(a) == TRUE

\* main.rs:152
Suppress(a) == a.no_dev_deps \/ a.remove_dev_deps

\* The test of Kind::SkipAsPrivate left out.
IsSkip_Never(p) == FALSE

\* main.rs:131
IsSkip(p) == p \in private

Cur == packages[idx]

CurHandle == CHOOSE h \in handles : h.path = Cur

\* ---------------------------------------------------------------- actions

\* exec_on_workspace up to the iteration: the assertion, Restore::new, the
\* template command line, the selection and Package::from_iter (which reads
\* the manifest of every selected package and may fail on one).
ExecOnWorkspace ==
    /\ pc = "start"
    /\ UNCHANGED << inputs, disk, idx, handles, pending, invoked, writes,
                    doneCalls, visited, pkg_line, cmdlines >>
    /\ IF ~AssertHolds(args) THEN
            /\ pc' = "panic"
            /\ UNCHANGED << restore, packages, result, warned, line, progress >>
       ELSE
            /\ restore' = RestoreNew(args)
            /\ line' = BaseLine(args)
            /\ warned' = ExcludeWarnings(args, metadata)
            /\ IF ~args.workspace /\ Unmatched(args, metadata) # {} THEN
                    /\ result' = Err("matched no packages",
                                     FirstUnmatched(args, metadata))
                    /\ pc' = "done"
                    /\ UNCHANGED << packages, progress >>
               ELSE
                    LET sel == SelectPackages(args, current_manifest, metadata) IN
                    \E from_iter_ok \in (IF sel = <<>> THEN {TRUE} ELSE BOOLEAN) :
                        IF from_iter_ok THEN
                            /\ packages' = sel
                            /\ progress' = ProgressTotal(progress, sel)
                            /\ pc' = "visit"
                            /\ UNCHANGED result
                        ELSE
                            /\ result' = Err("from_iter", "")
                            /\ pc' = "done"
                            /\ UNCHANGED << packages, progress >>

\* The skip branch advancing the current index of Progress as well.
ExecOnPackage_CountSkipped ==
    /\ pc = "visit"
    /\ idx <= Len(packages)
    /\ visited' = Append(visited, Cur)
    /\ IF IsSkip(Cur) THEN
            /\ idx' = idx + 1
            /\ progress' = ProgressCount(progress)
            /\ UNCHANGED << pc, handles, pkg_line >>
       ELSE
            /\ pkg_line' = PackageLine(line, Cur)
            /\ UNCHANGED << idx, progress >>
            /\ IF Suppress(args) THEN
                    /\ handles' = handles \cup { SetManifest(Cur) }
                    /\ pc' = "write"
               ELSE
                    /\ pc' = "exec"
                    /\ UNCHANGED handles
    /\ UNCHANGED << inputs, disk, restore, packages, pending, result, invoked,
                    writes, doneCalls, warned, line, cmdlines >>

\* The arguments of the package appended to the shared template instead of
\* to a clone of it.
ExecOnPackage_SharedLine ==
    /\ pc = "visit"
    /\ idx <= Len(packages)
    /\ visited' = Append(visited, Cur)
    /\ IF IsSkip(Cur) THEN
            /\ idx' = idx + 1
            /\ UNCHANGED << pc, handles, pkg_line, line >>
       ELSE
            /\ line' = PackageLine(line, Cur)
            /\ pkg_line' = line'
            /\ UNCHANGED idx
            /\ IF Suppress(args) THEN
                    /\ handles' = handles \cup { SetManifest(Cur) }
                    /\ pc' = "write"
               ELSE
                    /\ pc' = "exec"
                    /\ UNCHANGED handles
    /\ UNCHANGED << inputs, disk, restore, packages, pending, result, invoked,
                    writes, doneCalls, warned, cmdlines, progress >>

\* exec_on_package for the next package, into no_dev_deps up to the write
\* of the manifest or the invocation.
ExecOnPackage ==
    /\ pc = "visit"
    /\ idx <= Len(packages)
    /\ visited' = Append(visited, Cur)
    /\ IF IsSkip(Cur) THEN
            /\ idx' = idx + 1
            /\ UNCHANGED << pc, handles, pkg_line >>
       ELSE
            /\ pkg_line' = PackageLine(line, Cur)
            /\ UNCHANGED idx
            /\ IF Suppress(args) THEN
                    /\ handles' = handles \cup { SetManifest(Cur) }
                    /\ pc' = "write"
               ELSE
                    /\ pc' = "exec"
                    /\ UNCHANGED handles
    /\ UNCHANGED << inputs, disk, restore, packages, pending, result, invoked,
                    writes, doneCalls, warned, line, cmdlines, progress >>

\* try_for_each is through: exec_on_workspace returns Ok.
Finish ==
    /\ pc = "visit"
    /\ idx > Len(packages)
    /\ result' = Ok
    /\ pc' = "done"
    /\ UNCHANGED << inputs, cmd, disk, restore, packages, idx, handles, pending,
                    invoked, writes, doneCalls, visited, warned >>

\* The error of fs::write dropped instead of propagated with `?`.
WriteManifest_IgnoreError ==
    /\ pc = "write"
    /\ \E o \in WriteOutcomes :
        /\ disk' = FsWrite(disk, Cur, RemoveDevDeps(Raw(Cur)), o)
        /\ writes' = Append(writes, [path |-> Cur, what |-> "update",
                                     by |-> "no_dev_deps", ok |-> o = "ok"])
    /\ pc' = "exec"
    /\ UNCHANGED << inputs, cmd, restore, packages, idx, handles, pending, result,
                    invoked, doneCalls, visited, warned >>

\* The manifest's own content written in place of `new`.
WriteManifest_Original ==
    /\ pc = "write"
    /\ \E o \in WriteOutcomes :
        /\ disk' = FsWrite(disk, Cur, Raw(Cur), o)
        /\ writes' = Append(writes, [path |-> Cur, what |-> "update",
                                     by |-> "no_dev_deps", ok |-> o = "ok"])
        /\ IF o = "ok" THEN
                /\ pc' = "exec"
                /\ UNCHANGED pending
           ELSE
                /\ pending' = Err("failed to update manifest file", Cur)
                /\ pc' = "drop"
    /\ UNCHANGED << inputs, cmd, restore, packages, idx, handles, result, invoked,
                    doneCalls, visited, warned >>

\* fs::write(&package.manifest_path, new).with_context(..)?
WriteManifest ==
    /\ pc = "write"
    /\ \E o \in WriteOutcomes :
        /\ disk' = FsWrite(disk, Cur, RemoveDevDeps(Raw(Cur)), o)
        /\ writes' = Append(writes, [path |-> Cur, what |-> "update",
                                     by |-> "no_dev_deps", ok |-> o = "ok"])
        /\ IF o = "ok" THEN
                /\ pc' = "exec"
                /\ UNCHANGED pending
           ELSE
                /\ pending' = Err("failed to update manifest file", Cur)
                /\ pc' = "drop"
    /\ UNCHANGED << inputs, cmd, restore, packages, idx, handles, result, invoked,
                    doneCalls, visited, warned >>

\* package::exec: the current index advances and the subprocess is started
\* with the package's command line.
PackageExec ==
    /\ pc = "exec"
    /\ invoked' = Append(invoked, Cur)
    /\ cmdlines' = Append(cmdlines, pkg_line)
    /\ progress' = ProgressCount(progress)
    /\ pc' = "running"
    /\ UNCHANGED << inputs, line, pkg_line, disk, restore, packages, idx, handles, pending,
                    result, writes, doneCalls, visited, warned >>

\* for_each in place of try_for_each: a failed invocation is recorded and
\* the iteration goes on.
PackageExecReturn_Continue ==
    /\ pc = "running"
    /\ \E ok \in BOOLEAN :
        IF Suppress(args) THEN
            /\ pc' = IF ok THEN "finalize" ELSE "drop"
            /\ pending' = IF ok THEN pending ELSE Err("exec", Cur)
            /\ UNCHANGED << idx, result >>
        ELSE
            /\ idx' = idx + 1
            /\ pc' = "visit"
            /\ result' = IF ok THEN result ELSE Err("exec", Cur)
            /\ UNCHANGED pending
    /\ UNCHANGED << inputs, cmd, disk, restore, packages, handles, invoked, writes,
                    doneCalls, visited, warned >>

\* The handle kept beyond no_dev_deps: after a successful invocation the
\* iteration goes on with the manifest not restored and the handle open.
PackageExecReturn_NoFinalize ==
    /\ pc = "running"
    /\ \E ok \in BOOLEAN :
        IF ok THEN
            /\ idx' = idx + 1
            /\ pc' = "visit"
            /\ UNCHANGED << pending, result >>
        ELSE IF Suppress(args) THEN
            /\ pc' = "drop"
            /\ pending' = Err("exec", Cur)
            /\ UNCHANGED << idx, result >>
        ELSE
            /\ result' = Err("exec", Cur)
            /\ pc' = "done"
            /\ UNCHANGED << idx, pending >>
    /\ UNCHANGED << inputs, cmd, disk, restore, packages, handles, invoked, writes,
                    doneCalls, visited, warned >>

\* A failed invocation tried once more before the failure is propagated.
PackageExecReturn_Retry ==
    /\ pc = "running"
    /\ \E ok \in BOOLEAN :
        IF ~ok /\ Cardinality({ k \in 1..Len(invoked) : invoked[k] = Cur }) < 2 THEN
            /\ pc' = "exec"
            /\ UNCHANGED << idx, pending, result >>
        ELSE IF Suppress(args) THEN
            /\ pc' = IF ok THEN "finalize" ELSE "drop"
            /\ pending' = IF ok THEN pending ELSE Err("exec", Cur)
            /\ UNCHANGED << idx, result >>
        ELSE IF ok THEN
            /\ idx' = idx + 1
            /\ pc' = "visit"
            /\ UNCHANGED << pending, result >>
        ELSE
            /\ result' = Err("exec", Cur)
            /\ pc' = "done"
            /\ UNCHANGED << idx, pending >>
    /\ UNCHANGED << inputs, cmd, disk, restore, packages, handles, invoked, writes,
                    doneCalls, visited, warned >>

\* package::exec returns: the subprocess's exit status is the outcome.
PackageExecReturn ==
    /\ pc = "running"
    /\ \E ok \in BOOLEAN :
        IF Suppress(args) THEN
            /\ pc' = IF ok THEN "finalize" ELSE "drop"
            /\ pending' = IF ok THEN pending ELSE Err("exec", Cur)
            /\ UNCHANGED << idx, result >>
        ELSE IF ok THEN
            /\ idx' = idx + 1
            /\ pc' = "visit"
            /\ UNCHANGED << pending, result >>
        ELSE
            /\ result' = Err("exec", Cur)
            /\ pc' = "done"
            /\ UNCHANGED << idx, pending >>
    /\ UNCHANGED << inputs, cmd, disk, restore, packages, handles, invoked, writes,
                    doneCalls, visited, warned >>

\* done() that writes the original back without leaving the handle inert.
HandleDone_NotInert ==
    /\ pc = "finalize"
    /\ doneCalls' = Append(doneCalls, Cur)
    /\ UNCHANGED handles
    /\ IF HandleWrites(restore, CurHandle) THEN
            \E o \in WriteOutcomes :
                /\ disk' = FsWrite(disk, CurHandle.path, CurHandle.original, o)
                /\ writes' = Append(writes, [path |-> CurHandle.path,
                                             what |-> "restore", by |-> "done",
                                             ok |-> o = "ok"])
                /\ pending' = IF o = "ok" THEN Ok
                              ELSE Err("failed to restore manifest file",
                                       CurHandle.path)
       ELSE
            /\ pending' = Ok
            /\ UNCHANGED << disk, writes >>
    /\ pc' = "drop"
    /\ UNCHANGED << inputs, cmd, restore, packages, idx, result, invoked, visited,
                    warned >>

\* The Result of done() dropped: no_dev_deps returns Ok(()) after it.
HandleDone_IgnoreError ==
    /\ pc = "finalize"
    /\ doneCalls' = Append(doneCalls, Cur)
    /\ handles' = (handles \ {CurHandle})
                    \cup { [CurHandle EXCEPT !.restored = TRUE] }
    /\ IF HandleWrites(restore, CurHandle) THEN
            \E o \in WriteOutcomes :
                /\ disk' = FsWrite(disk, CurHandle.path, CurHandle.original, o)
                /\ writes' = Append(writes, [path |-> CurHandle.path,
                                             what |-> "restore", by |-> "done",
                                             ok |-> o = "ok"])
       ELSE
            UNCHANGED << disk, writes >>
    /\ pending' = Ok
    /\ pc' = "drop"
    /\ UNCHANGED << inputs, cmd, restore, packages, idx, result, invoked, visited,
                    warned >>

\* handle.done(): writes the original back and leaves the handle inert.
HandleDone ==
    /\ pc = "finalize"
    /\ doneCalls' = Append(doneCalls, Cur)
    /\ handles' = (handles \ {CurHandle})
                    \cup { [CurHandle EXCEPT !.restored = TRUE] }
    /\ IF HandleWrites(restore, CurHandle) THEN
            \E o \in WriteOutcomes :
                /\ disk' = FsWrite(disk, CurHandle.path, CurHandle.original, o)
                /\ writes' = Append(writes, [path |-> CurHandle.path,
                                             what |-> "restore", by |-> "done",
                                             ok |-> o = "ok"])
                /\ pending' = IF o = "ok" THEN Ok
                              ELSE Err("failed to restore manifest file",
                                       CurHandle.path)
       ELSE
            /\ pending' = Ok
            /\ UNCHANGED << disk, writes >>
    /\ pc' = "drop"
    /\ UNCHANGED << inputs, cmd, restore, packages, idx, result, invoked, visited,
                    warned >>

\* A handle that restores in done() only: leaving no_dev_deps by `?` releases
\* it without the write.
HandleDrop_NoRestore ==
    /\ pc = "drop"
    /\ handles' = handles \ {CurHandle}
    /\ IF pending = Ok THEN
            /\ idx' = idx + 1
            /\ pc' = "visit"
            /\ UNCHANGED result
       ELSE
            /\ result' = pending
            /\ pc' = "done"
            /\ UNCHANGED idx
    /\ pending' = NoResult
    /\ UNCHANGED << inputs, cmd, disk, writes, restore, packages, doneCalls, invoked,
                    visited, warned >>

\* no_dev_deps returns `pending`: the handle goes out of scope and is
\* released (an error of its write is only reported), then try_for_each
\* goes on or stops.
HandleDrop ==
    /\ pc = "drop"
    /\ handles' = handles \ {CurHandle}
    /\ IF HandleWrites(restore, CurHandle) THEN
            \E o \in WriteOutcomes :
                /\ disk' = FsWrite(disk, CurHandle.path, CurHandle.original, o)
                /\ writes' = Append(writes, [path |-> CurHandle.path,
                                             what |-> "restore", by |-> "drop",
                                             ok |-> o = "ok"])
       ELSE
            UNCHANGED << disk, writes >>
    /\ IF pending = Ok THEN
            /\ idx' = idx + 1
            /\ pc' = "visit"
            /\ UNCHANGED result
       ELSE
            /\ result' = pending
            /\ pc' = "done"
            /\ UNCHANGED idx
    /\ pending' = NoResult
    /\ UNCHANGED << inputs, cmd, restore, packages, doneCalls, invoked, visited,
                    warned >>

Next ==
    \/ ExecOnWorkspace
    \/ ExecOnPackage
    \/ Finish
    \/ WriteManifest
    \/ PackageExec
    \/ PackageExecReturn
    \/ HandleDone
    \/ HandleDrop

Spec == Init /\ [][Next]_vars

\* ---------------------------------------------------------- claim helpers

\* Restoring runs: no_dev_deps without remove_dev_deps.
Restoring == args.no_dev_deps /\ ~args.remove_dev_deps

Suppressing == args.no_dev_deps \/ args.remove_dev_deps

WritesOf(p, what) ==
    { i \in 1..Len(writes) : writes[i].path = p /\ writes[i].what = what }

RestoreFailed ==
    \E i \in 1..Len(writes) : writes[i].what = "restore" /\ ~writes[i].ok

\* The manifest of p was overwritten with content other than its original.
Mutated(p) ==
    /\ \E i \in WritesOf(p, "update") : writes[i].ok
    /\ RemoveDevDeps(Raw(p)) # Raw(p)

\* Position of a package in a sequence of distinct names.
PosIn(s, n) == CHOOSE i \in 1..Len(s) : s[i] = n

\* The invocation of the package at position idx failed.
ExecFailed == pending.kind = "exec" \/ result.kind = "exec"

\* ------------------------------------------------------------------ claims

Released ==
    { p \in Range(visited) :
        /\ p \notin private
        /\ Suppressing
        /\ \A h \in handles : h.path # p }

FailedUpdate(p) == \E i \in WritesOf(p, "update") : ~writes[i].ok

HasUnmatched ==
    \E i \in 1..Len(args.package) : args.package[i] \notin Range(metadata)

\* C5, as stated: when args.package holds a name matching no package, nothing
\* is invoked or written and the run ends with the error naming a spec that
\* matched nothing.
C5_Original ==
    HasUnmatched =>
        /\ invoked = <<>> /\ writes = <<>>
        /\ pc = "done" =>
              /\ result.kind = "matched no packages"
              /\ result.arg \in Range(args.package) \ Range(metadata)

\* C5, amended: when the workspace flag is unset and args.package holds a name
\* matching no package, no package is selected, nothing is invoked or
\* written, and the run, once past its entry assertion, ends with the error
\* naming the first spec of the list that matched nothing.
C5_Unmatched ==
    (~args.workspace /\ HasUnmatched) =>
        /\ invoked = <<>> /\ writes = <<>> /\ packages = <<>> /\ visited = <<>>
        /\ pc \in { "start", "done", "panic" }
        /\ pc = "done" =>
              /\ result.kind = "matched no packages"
              /\ \E i \in 1..Len(args.package) :
                    /\ result.arg = args.package[i]
                    /\ args.package[i] \notin Range(metadata)
                    /\ \A j \in 1..(i - 1) : args.package[j] \in Range(metadata)

\* The list names a package of the workspace, then one that is not; the run
\* ended with the error.
C5_Witness ==
    /\ ~args.workspace /\ pc = "done"
    /\ args.package = <<"a", "z">> /\ Len(metadata) = 3
    /\ result = Err("matched no packages", "z")

\* C6: a package whose Kind is SkipAsPrivate is never invoked, written or
\* guarded, no error of the run is about it, the iteration moves past it at
\* once, and a run that ends Ok has visited every selected package.
C6_SkipPrivate ==
    /\ \A p \in private :
          /\ p \notin Range(invoked)
          /\ WritesOf(p, "update") = {} /\ WritesOf(p, "restore") = {}
          /\ \A h \in handles : h.path # p
          /\ result.arg # p /\ pending.arg # p
    /\ \A i \in 1..Len(visited) : visited[i] \in private => idx > i
    /\ (pc = "done" /\ result.kind \notin { "Ok", "matched no packages",
                                            "from_iter" })
          => (packages[idx] \notin private /\ result.arg = packages[idx])
    /\ (pc = "done" /\ result = Ok) => visited = packages

\* Three packages selected, the first and the last private: the run ended Ok
\* having invoked the second only.
C6_Witness ==
    /\ pc = "done" /\ result = Ok
    /\ Len(packages) = 3
    /\ packages[1] \in private /\ packages[3] \in private
    /\ invoked = << packages[2] >>
    /\ visited = packages

\* The selection was made and Package::from_iter returned the packages.
Selected ==
    \/ pc \in { "visit", "write", "exec", "running", "finalize", "drop" }
    \/ pc = "done" /\ result.kind \notin { "from_iter", "matched no packages" }

\* C7: with the workspace flag set the selected packages are exactly the
\* workspace packages not named in the exclude list, each once; an exclude
\* name that matches no package is warned about, fails nothing and removes
\* nothing.
C7_WorkspaceExclude ==
    (args.workspace /\ pc \notin { "start", "panic" }) =>
        /\ result.kind # "matched no packages"
        /\ warned = Range(args.exclude) \ Range(metadata)
        /\ Selected =>
              /\ Range(packages) = Range(metadata) \ Range(args.exclude)
              /\ Len(packages) = Cardinality(Range(packages))
              /\ Range(args.exclude) \cap Range(metadata) = {}
                    => packages = metadata

\* --workspace --exclude b --exclude z on {a, b, c}: a and c are selected and
\* run, z is warned about.
C7_Witness ==
    /\ args.workspace /\ args.exclude = <<"b", "z">>
    /\ metadata = <<"a", "b", "c">>
    /\ packages = <<"a", "c">>
    /\ warned = {"z"}
    /\ pc = "done" /\ result = Ok
    /\ private = {}

\* C8: in every selection mode the selected packages are packages of the
\* metadata list, in the order of that list, each at most once, and they are
\* visited in that order.
C8_MetadataOrder ==
    /\ \A i \in 1..Len(packages) : packages[i] \in Range(metadata)
    /\ \A i, j \in 1..Len(packages) :
          i < j => PosIn(metadata, packages[i]) < PosIn(metadata, packages[j])
    /\ Len(visited) <= Len(packages)
    /\ visited = SubSeq(packages, 1, Len(visited))

\* -p b -p a: a is visited before b.
C8_Witness ==
    /\ ~args.workspace /\ args.package = <<"b", "a">>
    /\ packages = <<"a", "b">>
    /\ visited = <<"a", "b">>
    /\ pc = "done"

\* C9: with a virtual current manifest and the workspace flag, the package
\* list and the exclude list all unset, the selected packages are the whole
\* metadata list.
C9_Virtual ==
    ( /\ current_manifest.virtual
      /\ ~args.workspace /\ args.package = <<>> /\ args.exclude = <<>>
      /\ Selected )
        => packages = metadata

\* A virtual manifest and no flags on a workspace of three: all three are
\* selected and the run went through them.
C9_Witness ==
    /\ current_manifest.virtual
    /\ ~args.workspace /\ args.package = <<>> /\ args.exclude = <<>>
    /\ Len(metadata) = 3 /\ packages = metadata
    /\ pc = "done" /\ result = Ok /\ Len(invoked) = 3

Differing == { p \in DOMAIN disk : disk[p] # Raw(p) }

\* The package at position j is done with: skipped, or invoked with its
\* subprocess returned and its handle released.
Completed(j) ==
    /\ packages[j] \in Range(visited)
    /\ packages[j] \notin private => packages[j] \in Range(invoked)
    /\ \A h \in handles : h.path # packages[j]

VisitedNormal == SelectSeq(visited, LAMBDA p : p \notin private)

\* C11, as stated: the total is fixed once the packages are selected, and the
\* current index has advanced by one for each package visited, the skipped
\* ones included, when a package is through.
C11_Original ==
    /\ Selected => progress.total = Len(packages)
    /\ pc = "visit" => progress.count = Len(visited)

\* C11, amended: the total is the number of selected packages from the
\* selection on and never changes; the current index only advances at the
\* invocation of a package, by one, so it counts the invocations and a
\* package skipped as private does not advance it.
C11_Progress ==
    /\ Selected => progress.total = Len(packages)
    /\ ~Selected => progress.total = 0
    /\ progress.count = Len(invoked)
    /\ progress.count <= progress.total
    /\ pc = "visit" => progress.count = Len(VisitedNormal)

\* Three packages selected, one skipped as private and two invoked: the
\* run ended with the index at two of three.
C11_Witness ==
    /\ pc = "done" /\ result = Ok
    /\ Len(packages) = 3 /\ packages[2] \in private
    /\ progress = [count |-> 2, total |-> 3]
    /\ Len(visited) = 3

\* Number of positions of l that hold x.
Occurrences(l, x) == Cardinality({ k \in 1..Len(l) : l[k] = x })

\* The arguments exec_on_package appends for package p.
OwnArgs(p) == Range(FeatureArgs(p)) \cup { p }

\* Arguments that only the command line of p may carry.
ForeignArgs(p) ==
    UNION { OwnArgs(q) \ (OwnArgs(p) \cup { "--features" }) :
            q \in Range(metadata) \ { p } }

\* The template as exec_on_workspace leaves it: the binary, the subcommand
\* when given, --color when configured.
Template ==
    (IF args.subcommand THEN <<"cargo", "subcommand">> ELSE <<"cargo">>)
        \o (IF args.color = "always" THEN <<"--color", "always">> ELSE <<>>)

\* C12: the template is the same after any number of packages; every
\* invocation's command line starts with the template, carries
\* --manifest-path exactly once, followed by the path of its own package, and
\* carries no argument appended for another package.
C12_IndependentLines ==
    /\ pc \notin { "start", "panic" } => line = Template
    /\ Len(cmdlines) = Len(invoked)
    /\ \A i \in 1..Len(cmdlines) :
          LET l == cmdlines[i] IN
          /\ Len(l) >= Len(Template) + 2
          /\ SubSeq(l, 1, Len(Template)) = Template
          /\ Occurrences(l, "--manifest-path") = 1
          /\ l[Len(l) - 1] = "--manifest-path" /\ l[Len(l)] = invoked[i]
          /\ Range(l) \cap ForeignArgs(invoked[i]) = {}
          /\ \A k \in 1..Len(FeatureArgs(invoked[i])) :
                l[Len(Template) + k] = FeatureArgs(invoked[i])[k]

\* Three packages invoked one after the other with --color configured, the
\* first and the last with feature arguments of their own.
C12_Witness ==
    /\ pc = "done" /\ result = Ok
    /\ invoked = <<"a", "b", "c">>
    /\ args.color = "always" /\ args.subcommand
    /\ cmdlines[3] = <<"cargo", "subcommand", "--color", "always",
                       "--features", "feature-of-c", "--manifest-path", "c">>

\* C13: when neither no_dev_deps nor remove_dev_deps is set, no manifest is
\* ever written, no handle is ever opened or finalized, and every manifest
\* holds its original content in every state.
C13_NoSuppression ==
    (~args.no_dev_deps /\ ~args.remove_dev_deps) =>
        /\ writes = <<>>
        /\ handles = {}
        /\ doneCalls = <<>>
        /\ \A p \in Range(metadata) : disk[p] = Raw(p)
        /\ pc \notin { "write", "finalize", "drop" }

\* A run without suppression that invoked two packages, the second failing.
C13_Witness ==
    /\ ~args.no_dev_deps /\ ~args.remove_dev_deps
    /\ pc = "done" /\ result.kind = "exec"
    /\ Len(invoked) = 2 /\ Len(packages) = 3

\* C14: with the workspace flag unset, no package list and a current manifest
\* that is not virtual, the selection is the package of the current
\* manifest's name alone, whatever the exclude list holds, or nothing when
\* the workspace has no package of that name; then nothing is invoked or
\* written and the run ends Ok.
C14_CurrentPackage ==
    ( /\ ~args.workspace /\ args.package = <<>> /\ ~current_manifest.virtual
      /\ pc \notin { "start", "panic" } ) =>
        /\ result.kind # "matched no packages"
        /\ Selected =>
              /\ Len(packages) <= 1
              /\ packages = IF current_manifest.name \in Range(metadata)
                            THEN << current_manifest.name >> ELSE <<>>
        /\ current_manifest.name \notin Range(metadata) =>
              /\ Selected /\ pc \in { "visit", "done" }
              /\ invoked = <<>> /\ writes = <<>> /\ visited = <<>>
              /\ pc = "done" => result = Ok

\* The current manifest is package b's and b is excluded as well: b alone is
\* selected out of three and invoked.
C14_Witness ==
    /\ ~args.workspace /\ args.package = <<>>
    /\ current_manifest = [virtual |-> FALSE, name |-> "b"]
    /\ args.exclude = <<"b", "z">>
    /\ Len(metadata) = 3 /\ private = {}
    /\ packages = <<"b">> /\ invoked = <<"b">>
    /\ pc = "done"

\* C15: no package is invoked more than once, only visited packages that are
\* not skipped are invoked, a failed invocation is the last one of the run,
\* and a run that ends Ok has invoked every selected package that is not
\* private exactly once.
C15_OneInvocation ==
    /\ \A p \in Range(metadata) :
          /\ Occurrences(invoked, p) <= 1
          /\ Occurrences(invoked, p) = 1 =>
                (p \in Range(visited) /\ p \notin private)
    /\ ExecFailed => invoked[Len(invoked)] = packages[idx]
    /\ (pc = "done" /\ result = Ok) =>
          \A i \in 1..Len(packages) :
              packages[i] \notin private
                  => Occurrences(invoked, packages[i]) = 1

\* A suppressing run over three packages, one of them private, ended Ok with
\* the two others invoked once each.
C15_Witness ==
    /\ pc = "done" /\ result = Ok
    /\ Suppressing
    /\ Len(packages) = 3 /\ Cardinality(private) = 1
    /\ Len(invoked) = 2 /\ invoked[1] # invoked[2]

\* C16: every state past the assertion of exec_on_workspace has a
\* subcommand or remove_dev_deps set; a run that violates it stops at the
\* assertion with nothing selected, written, guarded or invoked.
C16_Assertion ==
    /\ pc \notin { "start", "panic" } =>
          (args.subcommand \/ args.remove_dev_deps)
    /\ ~(args.subcommand \/ args.remove_dev_deps) =>
          /\ pc \in { "start", "panic" }
          /\ packages = <<>> /\ visited = <<>>
          /\ writes = <<>> /\ invoked = <<>> /\ handles = {}
          /\ result = NoResult
          /\ \A p \in Range(metadata) : disk[p] = Raw(p)

\* A run without subcommand, with no_dev_deps alone, on a workspace of
\* three: stopped by the assertion.
C16_Witness ==
    /\ pc = "panic"
    /\ ~args.subcommand /\ args.no_dev_deps
    /\ Len(metadata) = 3

\* The manifest of q as the packages before the current one left it: the
\* original in a restoring run or when q was not mutated, the stripped
\* content otherwise.
LeftBehind(q) ==
    IF Restoring \/ ~Mutated(q) THEN Raw(q) ELSE RemoveDevDeps(Raw(q))

Processed == (Range(packages) \cap Range(visited)) \ private

\* C18: every write of a manifest, update or restore, is to the manifest of a
\* selected package the iteration reached that is not skipped as private;
\* every other manifest holds its original content and has no handle.
C18_OnlyProcessed ==
    /\ \A i \in 1..Len(writes) : writes[i].path \in Processed
    /\ \A p \in Range(metadata) \ Processed :
          /\ disk[p] = Raw(p)
          /\ \A h \in handles : h.path # p
          /\ p \notin Range(doneCalls)

\* A suppressing run on a workspace of three: one package not selected, one
\* selected and skipped as private, one mutated.
C18_Witness ==
    /\ Suppressing /\ pc = "done"
    /\ Len(metadata) = 3 /\ Len(packages) = 2
    /\ Cardinality(private \cap Range(packages)) = 1
    /\ \E p \in Processed : Mutated(p)
    /\ Cardinality({ writes[i].path : i \in 1..Len(writes) }) = 1

\* done() of the handle of p reported an error.
DoneFailed(p) ==
    \E i \in WritesOf(p, "restore") : writes[i].by = "done" /\ ~writes[i].ok

\* C19: when done() reports an error after a successful invocation, that
\* error is what no_dev_deps and then the run return, and no later package is
\* visited; in suppression mode the iteration goes past a package only after
\* its invocation and its done() both succeeded.
C19_DoneError ==
    /\ \A p \in Range(metadata) :
          DoneFailed(p) =>
              /\ p = packages[idx] /\ Len(visited) = idx
              /\ invoked[Len(invoked)] = p
              /\ \/ pc = "drop"
                    /\ pending = Err("failed to restore manifest file", p)
                 \/ pc = "done"
                    /\ result = Err("failed to restore manifest file", p)
    /\ Suppressing =>
          \A j \in 1..(idx - 1) :
              packages[j] \notin private =>
                  /\ packages[j] \in Range(invoked)
                  /\ packages[j] \in Range(doneCalls)
                  /\ ~DoneFailed(packages[j])
                  /\ Restoring =>
                        \E i \in WritesOf(packages[j], "restore") :
                            writes[i].by = "done" /\ writes[i].ok

\* The first of three packages was invoked, done() failed: the run ended
\* with that error and the two others were never visited.
C19_Witness ==
    /\ pc = "done"
    /\ result.kind = "failed to restore manifest file"
    /\ Len(packages) = 3 /\ idx = 1
    /\ Len(invoked) = 1 /\ Len(visited) = 1
====
